---------------------------- MODULE Spec2Model ----------------------------
(***************************************************************************)
(* The string scanners of search2.cc (struhchuh): strchr-like searches for *)
(* '*' and for "*#" in a buffer of known length, by bytewise loops, by     *)
(* Mycroft's zero-byte trick on 4 and 8 byte words, and by SSE2 compares   *)
(* on 16 byte blocks.                                                      *)
(*                                                                         *)
(* Memory is a function from indices relative to the buffer start s to     *)
(* bytes 0..255; start is the address of s.  A word is the sequence of its  *)
(* bytes, lowest address first (x86 is little-endian), so that 32 and 64   *)
(* bit arithmetic is done lane by lane with explicit borrows and carries.  *)
(* Every scanner returns its result together with the loads it made, in    *)
(* order, and the value its loop carried into each iteration.              *)
(***************************************************************************)
EXTENDS Integers, Sequences, FiniteSets

VARIABLES
  memory,   \* the bytes around the buffer, by index relative to its start
  start,    \* the address of the buffer start (the scanners' s)
  length,   \* the declared length (the scanners' len)
  callee,   \* the scanner that was called, "none" before the call
  result,   \* what it returned
  loads,    \* the loads it made, <<index, size>>, in order
  carry     \* <<i, value>> carried into each iteration of its block loop

vars == <<memory, start, length, callee, result, loads, carry>>

-----------------------------------------------------------------------------
(* Program constants *)

Star == 42

Hash == 35

NotFound == -127

PAGE == 4096

-----------------------------------------------------------------------------
(* Integer bit operations (int, at most 31 bits, never negative here) *)

\* x & y and x ^ y on one bit after the other
RECURSIVE AndBits(_, _)
AndBits(x, y) ==
  IF x = 0 \/ y = 0 THEN 0
  ELSE (x % 2) * (y % 2) + 2 * AndBits(x \div 2, y \div 2)

RECURSIVE XorBits(_, _)
XorBits(x, y) ==
  IF x = 0 THEN y
  ELSE IF y = 0 THEN x
  ELSE ((x + y) % 2) + 2 * XorBits(x \div 2, y \div 2)

\* the same on bytes, tabulated once
AndTable == [x \in 0..255 |-> [y \in 0..255 |-> AndBits(x, y)]]

XorTable == [x \in 0..255 |-> [y \in 0..255 |-> XorBits(x, y)]]

RECURSIVE BitAnd(_, _)
BitAnd(x, y) ==
  IF x = 0 \/ y = 0 THEN 0
  ELSE AndTable[x % 256][y % 256] + 256 * BitAnd(x \div 256, y \div 256)

BitXor(x, y) == XorTable[x][y]

RECURSIVE Pow2(_)
Pow2(n) == IF n = 0 THEN 1 ELSE 2 * Pow2(n - 1)

\* x << n and x >> n on non-negative ints that do not overflow
Shl(x, n) == x * Pow2(n)

Shr(x, n) == x \div Pow2(n)

\* __builtin_ctz in its place: the index of the least significant 1 bit
RECURSIVE Ctz(_)
Ctz(x) == IF x = 0 THEN 0 ELSE IF x % 2 = 1 THEN 0 ELSE 1 + Ctz(x \div 2)

\* __builtin_ffs: one plus the index of the least significant 1 bit, 0 for 0
RECURSIVE Ffs(_)
Ffs(x) == IF x = 0 THEN 0 ELSE IF x % 2 = 1 THEN 1 ELSE 1 + Ffs(x \div 2)

-----------------------------------------------------------------------------
(* Words of n bytes: uint32_t (n = 4), uint64_t (n = 8), __m128i (n = 16) *)

\* *(T*)(s + i): the n bytes at s + i
RECURSIVE Load(_, _, _)
Load(m, i, n) == IF n = 0 THEN <<>> ELSE Append(Load(m, i, n - 1), m[i + n - 1])

\* a constant whose bytes are all c: 0x2a2a2a2a, 0x80808080, _mm_set1_epi8(c)
RECURSIVE Rep(_, _)
Rep(c, n) == IF n = 0 THEN <<>> ELSE Append(Rep(c, n - 1), c)

RECURSIVE XorLanes(_, _, _)
XorLanes(x, y, k) ==
  IF k = 0 THEN <<>> ELSE Append(XorLanes(x, y, k - 1), BitXor(x[k], y[k]))

WordXor(x, y) == XorLanes(x, y, Len(x))

RECURSIVE AndLanes(_, _, _)
AndLanes(x, y, k) ==
  IF k = 0 THEN <<>> ELSE Append(AndLanes(x, y, k - 1), BitAnd(x[k], y[k]))

WordAnd(x, y) == AndLanes(x, y, Len(x))

RECURSIVE NotLanes(_, _)
NotLanes(x, k) == IF k = 0 THEN <<>> ELSE Append(NotLanes(x, k - 1), 255 - x[k])

WordNot(x) == NotLanes(x, Len(x))

\* x - y modulo 2^(8n): the borrow out of each lane goes into the next one
RECURSIVE SubLanes(_, _, _, _)
SubLanes(x, y, k, borrow) ==
  IF k > Len(x) THEN <<>>
  ELSE LET d == x[k] - y[k] - borrow
       IN  <<d % 256>> \o SubLanes(x, y, k + 1, IF d < 0 THEN 1 ELSE 0)

WordSub(x, y) == SubLanes(x, y, 1, 0)

\* x + y modulo 2^(8n)
RECURSIVE AddLanes(_, _, _, _)
AddLanes(x, y, k, c) ==
  IF k > Len(x) THEN <<>>
  ELSE LET d == x[k] + y[k] + c
       IN  <<d % 256>> \o AddLanes(x, y, k + 1, d \div 256)

WordAdd(x, y) == AddLanes(x, y, 1, 0)

\* x << (8 * lanes), the bytes shifted out at the top are lost
WordShlBytes(x, lanes) == SubSeq(Rep(0, lanes) \o x, 1, Len(x))

\* x >> (8 * lanes)
WordShrBytes(x, lanes) == SubSeq(x \o Rep(0, lanes), lanes + 1, lanes + Len(x))

WordIsZero(x) == \A k \in 1..Len(x) : x[k] = 0

\* __builtin_ffs / __builtin_ffsll of a word given by its bytes
RECURSIVE WordFfsFrom(_, _)
WordFfsFrom(x, k) ==
  IF k > Len(x) THEN 0
  ELSE IF x[k] # 0 THEN 8 * (k - 1) + Ffs(x[k])
  ELSE WordFfsFrom(x, k + 1)

\* the index of the most significant 1 bit instead
RECURSIVE WordFlsFrom(_, _)
WordFlsFrom(x, k) ==
  IF k = 0 THEN 0
  ELSE IF x[k] # 0 THEN 8 * (k - 1) + 8
  ELSE WordFlsFrom(x, k - 1)

WordFls(x) == WordFlsFrom(x, Len(x))

WordFfs(x) == WordFfsFrom(x, 1)

\* _mm_cmpeq_epi8: 0xff in the lanes that are equal, 0x00 in the others
RECURSIVE CmpEqLanes(_, _, _)
CmpEqLanes(x, y, k) ==
  IF k = 0 THEN <<>>
  ELSE Append(CmpEqLanes(x, y, k - 1), IF x[k] = y[k] THEN 255 ELSE 0)

CmpEq(x, y) == CmpEqLanes(x, y, Len(x))

\* _mm_movemask_epi8: the top bit of lane k becomes bit k of an int
RECURSIVE MoveMaskFrom(_, _)
MoveMaskFrom(x, k) ==
  IF k > Len(x) THEN 0
  ELSE (x[k] \div 128) + 2 * MoveMaskFrom(x, k + 1)

MoveMask(x) == MoveMaskFrom(x, 1)

\* the low bits of the address one further on
LowBitsPlus1(a, i, n) == (a + i + 1) % n

\* (uintptr_t)(s + i) & (n - 1)
LowBits(a, i, n) == (a + i) % n

\* what a scanner hands back: its return value, its loads <<index, size>> in
\* order, and the value carried into each loop iteration <<i, value>>
Res(r, ld, cy) == [ret |-> r, loads |-> ld, carry |-> cy]

-----------------------------------------------------------------------------
(* The bytewise scanners *)

RECURSIVE naive_loop(_, _, _, _)
naive_loop(m, len, i, ld) ==
  IF i < len
  THEN LET ld1 == Append(ld, <<i, 1>>)
       IN  IF m[i] = Star THEN Res(i, ld1, <<>>)
           ELSE naive_loop(m, len, i + 1, ld1)
  ELSE Res(NotFound, ld, <<>>)

test_naive(m, s, len) == naive_loop(m, len, 0, <<>>)

\* s[i] == '*' && s[i + 1] == '#': the second byte is read only after a '*'
PairAt(m, i) == m[i] = Star /\ m[i + 1] = Hash

PairLoads(m, i, ld) ==
  IF m[i] = Star THEN ld \o <<<<i, 1>>, <<i + 1, 1>>>> ELSE Append(ld, <<i, 1>>)

RECURSIVE twobyte_loop(_, _, _, _)
twobyte_loop(m, len, i, ld) ==
  IF i < len
  THEN LET ld1 == PairLoads(m, i, ld)
       IN  IF PairAt(m, i) THEN Res(i, ld1, <<>>)
           ELSE twobyte_loop(m, len, i + 1, ld1)
  ELSE Res(NotFound, ld, <<>>)

test_twobyte(m, s, len) == twobyte_loop(m, len - 1, 0, <<>>)

-----------------------------------------------------------------------------
(* '*' by SSE2 *)

\* the answer returned without the check against len
GuardOff(answer, len) == answer

\* int answer = i + __builtin_ffs(bits) - 1; if (answer >= len) return -127;
Guard(answer, len) == IF answer >= len THEN NotFound ELSE answer

RECURSIVE pure_sse2_loop(_, _, _, _, _)
pure_sse2_loop(m, len, i, alignment_mask, ld) ==
  IF i < len
  THEN LET raw == Load(m, i, 16)
           comparison == CmpEq(raw, Rep(Star, 16))
           bits == BitAnd(MoveMask(comparison), alignment_mask)
           ld1 == Append(ld, <<i, 16>>)
       IN  IF bits # 0
           THEN Res(Guard(i + Ffs(bits) - 1, len), ld1, <<>>)
           ELSE pure_sse2_loop(m, len, i + 16, 65535, ld1)
  ELSE Res(NotFound, ld, <<>>)

\* test_pure_sse2 with its loads taken from s on, whatever the alignment of s
test_pure_sse2_unaligned(m, s, len) ==
  pure_sse2_loop(m, len, 0, 65535, <<>>)

\* test_pure_sse2 with the first block's mask left at 0xffff
test_pure_sse2_unmasked(m, s, len) ==
  pure_sse2_loop(m, len, 0 - LowBits(s, 0, 16), 65535, <<>>)

test_pure_sse2(m, s, len) ==
  LET last_bits == LowBits(s, 0, 16)
      alignment_mask == Shl(65535, last_bits)
  IN  pure_sse2_loop(m, len, 0 - last_bits, alignment_mask, <<>>)

\* the loop of aligned 128 bit loads of test_sse2 and test_sse2_and_mycroft4
RECURSIVE sse2_blocks(_, _, _, _)
sse2_blocks(m, len, i, ld) ==
  IF i < len
  THEN LET raw == Load(m, i, 16)
           comparison == CmpEq(raw, Rep(Star, 16))
           bits == MoveMask(comparison)
           ld1 == Append(ld, <<i, 16>>)
       IN  IF bits # 0
           THEN Res(Guard(i + Ffs(bits) - 1, len), ld1, <<>>)
           ELSE sse2_blocks(m, len, i + 16, ld1)
  ELSE Res(NotFound, ld, <<>>)

\* a prologue that tests the alignment first: no byte is compared when s is
\* aligned already
RECURSIVE prologue1_skip(_, _, _, _, _, _)
prologue1_skip(m, s, len, n, i, ld) ==
  IF i < len /\ LowBits(s, i, n) # 0
  THEN LET ld1 == Append(ld, <<i, 1>>)
       IN  IF m[i] = Star THEN [found |-> TRUE, i |-> i, ld |-> ld1]
           ELSE prologue1_skip(m, s, len, n, i + 1, ld1)
  ELSE [found |-> FALSE, i |-> i, ld |-> ld]

\* the bytewise prologue of the single byte scanners: at least one byte, then
\* on until s + i is a multiple of n
RECURSIVE prologue1(_, _, _, _, _, _)
prologue1(m, s, len, n, i, ld) ==
  IF i < len
  THEN LET ld1 == Append(ld, <<i, 1>>)
       IN  IF m[i] = Star THEN [found |-> TRUE, i |-> i, ld |-> ld1]
           ELSE IF LowBits(s, i + 1, n) = 0
                THEN [found |-> FALSE, i |-> i + 1, ld |-> ld1]
                ELSE prologue1(m, s, len, n, i + 1, ld1)
  ELSE [found |-> FALSE, i |-> i, ld |-> ld]

test_sse2(m, s, len) ==
  LET p == prologue1(m, s, len, 16, 0, <<>>)
  IN  IF p.found THEN Res(p.i, p.ld, <<>>)
      ELSE IF p.i >= len THEN Res(NotFound, p.ld, <<>>)
      ELSE sse2_blocks(m, len, p.i, p.ld)

-----------------------------------------------------------------------------
(* '*' by Mycroft's trick *)

\* raw = word ^ mask; raw = (raw - ones), without the & (~raw)
BorrowsNoNot(word, mask) ==
  LET raw == WordXor(word, mask)
      ones == Rep(1, Len(word))
  IN  WordSub(raw, ones)

\* raw = word ^ mask; raw = (raw - ones) & (~raw)
Borrows(word, mask) ==
  LET raw == WordXor(word, mask)
      ones == Rep(1, Len(word))
  IN  WordAnd(WordSub(raw, ones), WordNot(raw))

\* raw = word ^ mask; raw = (raw - ones) & (~raw) & highs
Detect(word, mask, highs) == WordAnd(Borrows(word, mask), highs)

\* 0x80808080ul << (last_bits << 3), as uint32_t or uint64_t
ShiftedHighs(last_bits, n) == WordShlBytes(Rep(128, n), last_bits)

\* the loop of aligned 4 byte loads of test_sse2_and_mycroft4, which leaves
\* for the 128 bit loop when s + i is a multiple of 16
RECURSIVE and_mycroft4_words(_, _, _, _, _)
and_mycroft4_words(m, s, len, i, ld) ==
  IF i < len
  THEN LET raw == Detect(Load(m, i, 4), Rep(Star, 4), Rep(128, 4))
           ld1 == Append(ld, <<i, 4>>)
       IN  IF ~WordIsZero(raw)
           THEN Res(Guard(i + Shr(WordFfs(raw), 3) - 1, len), ld1, <<>>)
           ELSE IF LowBits(s, i + 4, 16) = 0
                THEN IF i + 4 >= len THEN Res(NotFound, ld1, <<>>)
                     ELSE sse2_blocks(m, len, i + 4, ld1)
                ELSE and_mycroft4_words(m, s, len, i + 4, ld1)
  ELSE Res(NotFound, ld, <<>>)

test_sse2_and_mycroft4(m, s, len) ==
  LET p == prologue1(m, s, len, 4, 0, <<>>)
  IN  IF p.found THEN Res(p.i, p.ld, <<>>)
      ELSE IF p.i >= len THEN Res(NotFound, p.ld, <<>>)
      ELSE and_mycroft4_words(m, s, len, p.i, p.ld)

\* the loop of aligned n byte loads of test_mycroft4 (n = 4), test_mycroft
\* (n = 8) and, with the first highs shifted, of their pure variants
RECURSIVE mycroft_words(_, _, _, _, _, _)
mycroft_words(m, len, n, i, highs, ld) ==
  IF i < len
  THEN LET raw == Detect(Load(m, i, n), Rep(Star, n), highs)
           ld1 == Append(ld, <<i, n>>)
       IN  IF ~WordIsZero(raw)
           THEN Res(Guard(i + Shr(WordFfs(raw), 3) - 1, len), ld1, <<>>)
           ELSE mycroft_words(m, len, n, i + n, Rep(128, n), ld1)
  ELSE Res(NotFound, ld, <<>>)

test_mycroft4(m, s, len) ==
  LET p == prologue1(m, s, len, 4, 0, <<>>)
  IN  IF p.found THEN Res(p.i, p.ld, <<>>)
      ELSE IF p.i >= len THEN Res(NotFound, p.ld, <<>>)
      ELSE mycroft_words(m, len, 4, p.i, Rep(128, 4), p.ld)

test_pure_mycroft4(m, s, len) ==
  LET last_bits == LowBits(s, 0, 4)
  IN  mycroft_words(m, len, 4, 0 - last_bits, ShiftedHighs(last_bits, 4), <<>>)

test_mycroft(m, s, len) ==
  LET p == prologue1(m, s, len, 8, 0, <<>>)
  IN  IF p.found THEN Res(p.i, p.ld, <<>>)
      ELSE IF p.i >= len THEN Res(NotFound, p.ld, <<>>)
      ELSE mycroft_words(m, len, 8, p.i, Rep(128, 8), p.ld)

test_pure_mycroft(m, s, len) ==
  LET last_bits == LowBits(s, 0, 8)
  IN  mycroft_words(m, len, 8, 0 - last_bits, ShiftedHighs(last_bits, 8), <<>>)

-----------------------------------------------------------------------------
(* "*#" by SSE2 *)

\* the check against len instead of len - 1
Guard2OffByOne(res, len) == IF res >= len THEN NotFound ELSE res

\* if (result >= len - 1) return -127; return result;
Guard2(res, len) == IF res >= len - 1 THEN NotFound ELSE res

\* the bytewise prologue of the pair scanners: at least one pair while
\* i < len - 1, then on until s + i is a multiple of n
RECURSIVE prologue2(_, _, _, _, _, _)
prologue2(m, s, len, n, i, ld) ==
  IF i < len - 1
  THEN LET ld1 == PairLoads(m, i, ld)
       IN  IF PairAt(m, i) THEN [found |-> TRUE, i |-> i, ld |-> ld1]
           ELSE IF LowBits(s, i + 1, n) = 0
                THEN [found |-> FALSE, i |-> i + 1, ld |-> ld1]
                ELSE prologue2(m, s, len, n, i + 1, ld1)
  ELSE [found |-> FALSE, i |-> i, ld |-> ld]

\* twosse2_loop without prev = stars: no '*' is carried to the next block
RECURSIVE twosse2_loop_nocarry(_, _, _, _, _, _)
twosse2_loop_nocarry(m, len, i, prev, ld, cy) ==
  IF i < len
  THEN LET raw == Load(m, i, 16)
           stars == MoveMask(CmpEq(raw, Rep(Star, 16)))
           hashes == MoveMask(CmpEq(raw, Rep(Hash, 16)))
           combined == BitAnd(Shl(stars, 1), hashes)
           ld1 == Append(ld, <<i, 16>>)
           cy1 == Append(cy, <<i, prev>>)
       IN  IF BitAnd(prev, 32768) # 0 /\ BitAnd(hashes, 1) # 0
           THEN Res(i - 1, ld1, cy1)
           ELSE IF combined # 0
                THEN Res(Guard2(i + Ffs(combined) - 2, len), ld1, cy1)
                ELSE twosse2_loop_nocarry(m, len, i + 16, 0, ld1, cy1)
  ELSE Res(NotFound, ld, cy)

RECURSIVE twosse2_loop(_, _, _, _, _, _)
twosse2_loop(m, len, i, prev, ld, cy) ==
  IF i < len
  THEN LET raw == Load(m, i, 16)
           stars == MoveMask(CmpEq(raw, Rep(Star, 16)))
           hashes == MoveMask(CmpEq(raw, Rep(Hash, 16)))
           combined == BitAnd(Shl(stars, 1), hashes)
           ld1 == Append(ld, <<i, 16>>)
           cy1 == Append(cy, <<i, prev>>)
       IN  IF BitAnd(prev, 32768) # 0 /\ BitAnd(hashes, 1) # 0
           THEN Res(i - 1, ld1, cy1)
           ELSE IF combined # 0
                THEN Res(Guard2(i + Ffs(combined) - 2, len), ld1, cy1)
                ELSE twosse2_loop(m, len, i + 16, stars, ld1, cy1)
  ELSE Res(NotFound, ld, cy)

test_twosse2(m, s, len) ==
  LET p == prologue2(m, s, len, 16, 0, <<>>)
  IN  IF p.found THEN Res(p.i, p.ld, <<>>)
      ELSE IF p.i >= len - 1 THEN Res(NotFound, p.ld, <<>>)
      ELSE LET prev == Shl(IF m[p.i - 1] = Star THEN 1 ELSE 0, 15)
           IN  twosse2_loop(m, len, p.i, prev,
                            Append(p.ld, <<p.i - 1, 1>>), <<>>)

\* twobsse2_loop without stars >>= 16: all of stars goes into the next block
RECURSIVE twobsse2_loop_noshift(_, _, _, _, _, _, _)
twobsse2_loop_noshift(m, len, i, stars, alignment_mask, ld, cy) ==
  IF i < len
  THEN LET raw == Load(m, i, 16)
           stars1 == stars + Shl(BitAnd(MoveMask(CmpEq(raw, Rep(Star, 16))),
                                        alignment_mask), 1)
           hashes == MoveMask(CmpEq(raw, Rep(Hash, 16)))
           combined == BitAnd(hashes, stars1)
           ld1 == Append(ld, <<i, 16>>)
           cy1 == Append(cy, <<i, stars>>)
       IN  IF combined # 0
           THEN Res(Guard2(i + Ffs(combined) - 2, len), ld1, cy1)
           ELSE twobsse2_loop_noshift(m, len, i + 16, stars1, 65535, ld1, cy1)
  ELSE Res(NotFound, ld, cy)

\* the loop of test_twobsse2 and, with the first alignment_mask shifted, of
\* test_pure_twobsse2
RECURSIVE twobsse2_loop(_, _, _, _, _, _, _)
twobsse2_loop(m, len, i, stars, alignment_mask, ld, cy) ==
  IF i < len
  THEN LET raw == Load(m, i, 16)
           stars1 == stars + Shl(BitAnd(MoveMask(CmpEq(raw, Rep(Star, 16))),
                                        alignment_mask), 1)
           hashes == MoveMask(CmpEq(raw, Rep(Hash, 16)))
           combined == BitAnd(hashes, stars1)
           ld1 == Append(ld, <<i, 16>>)
           cy1 == Append(cy, <<i, stars>>)
       IN  IF combined # 0
           THEN Res(Guard2(i + Ffs(combined) - 2, len), ld1, cy1)
           ELSE twobsse2_loop(m, len, i + 16, Shr(stars1, 16), 65535, ld1, cy1)
  ELSE Res(NotFound, ld, cy)

test_twobsse2(m, s, len) ==
  LET p == prologue2(m, s, len, 16, 0, <<>>)
  IN  IF p.found THEN Res(p.i, p.ld, <<>>)
      ELSE IF p.i >= len - 1 THEN Res(NotFound, p.ld, <<>>)
      ELSE LET stars == IF m[p.i - 1] = Star THEN 1 ELSE 0
           IN  twobsse2_loop(m, len, p.i, stars, 65535,
                             Append(p.ld, <<p.i - 1, 1>>), <<>>)

test_pure_twobsse2(m, s, len) ==
  LET last_bits == LowBits(s, 0, 16)
      alignment_mask == Shl(65535, last_bits)
  IN  twobsse2_loop(m, len, 0 - last_bits, 0, alignment_mask, <<>>, <<>>)

-----------------------------------------------------------------------------
(* "*#" by Mycroft's trick *)

RECURSIVE mycroft2_loop(_, _, _, _)
mycroft2_loop(m, len, i, ld) ==
  IF i < len
  THEN LET raw == Borrows(Load(m, i - 1, 8), Rep(Star, 8))
           raw2 == Borrows(Load(m, i, 8), Rep(Hash, 8))
           combined == WordAnd(WordAnd(raw, raw2), Rep(128, 8))
           ld1 == ld \o <<<<i - 1, 8>>, <<i, 8>>>>
       IN  IF ~WordIsZero(combined)
           THEN Res(Guard2((i - 1) + Shr(WordFfs(combined), 3) - 1, len),
                    ld1, <<>>)
           ELSE mycroft2_loop(m, len, i + 8, ld1)
  ELSE Res(NotFound, ld, <<>>)

test_mycroft2(m, s, len) ==
  LET p == prologue2(m, s, len, 8, 0, <<>>)
  IN  IF p.found THEN Res(p.i, p.ld, <<>>)
      ELSE IF p.i >= len - 1 THEN Res(NotFound, p.ld, <<>>)
      ELSE mycroft2_loop(m, len, p.i, p.ld)

RECURSIVE pure_mycroft2_loop(_, _, _, _, _, _, _)
pure_mycroft2_loop(m, len, i, highs, stars_low, ld, cy) ==
  IF i < len
  THEN LET raw == Load(m, i, 8)
           new_stars == Detect(raw, Rep(Star, 8), highs)
           hashes == Borrows(raw, Rep(Hash, 8))
           stars_low1 == WordAdd(stars_low, WordShlBytes(new_stars, 1))
           combined == WordAnd(stars_low1, hashes)
           ld1 == Append(ld, <<i, 8>>)
           cy1 == Append(cy, <<i, stars_low>>)
       IN  IF ~WordIsZero(combined)
           THEN Res(Guard2((i - 1) + Shr(WordFfs(combined), 3) - 1, len),
                    ld1, cy1)
           ELSE pure_mycroft2_loop(m, len, i + 8, Rep(128, 8),
                                   WordShrBytes(new_stars, 7), ld1, cy1)
  ELSE Res(NotFound, ld, cy)

test_pure_mycroft2(m, s, len) ==
  LET last_bits == LowBits(s, 0, 8)
  IN  pure_mycroft2_loop(m, len, 0 - last_bits, ShiftedHighs(last_bits, 8),
                         Rep(0, 8), <<>>, <<>>)

-----------------------------------------------------------------------------
(* The buffers the scanners are called on.  The harness (search.cc, test)  *)
(* fills a buffer with 'a', writes '*' or "*#" at one position, leaves '*'  *)
(* or "*#" bytes behind the buffer end or before its start, and in its      *)
(* random part calls on any alignment with near-miss bytes.  What lies      *)
(* outside [0, len) is not the scanner's to choose: it is any of the        *)
(* backgrounds below.                                                      *)

Fill == 97

TestLens == 40

MaxLenWord == 10

MaxLenVec == 18

MaxLen == 12

WildLen == 6

\* the j-th byte of a background, counted away from the buffer edge
Pattern(pat, j) ==
  CASE pat = "fill" -> Fill
    [] pat = "stars" -> Star
    [] pat = "hashes" -> Hash
    [] pat = "pairs" -> IF j % 2 = 0 THEN Star ELSE Hash
    [] pat = "zero" -> 0

\* memory lo..hi around a buffer of len bytes: the window w at index p, and
\* around it the background bg = <<before the buffer, inside, behind it>>
Content(lo, hi, len, bg, p, w) ==
  [k \in lo..hi |->
     IF k >= p /\ k < p + Len(w) THEN w[k - p + 1]
     ELSE IF k < 0 THEN Pattern(bg[1], (0 - 1) - k)
     ELSE IF k >= len THEN Pattern(bg[3], k - len)
     ELSE Pattern(bg[2], k)]

\* before the call
Idle == callee = "none" /\ result = 0 /\ loads = <<>> /\ carry = <<>>

\* a buffer at any alignment to blocks of B bytes, with a window anywhere in
\* the aligned blocks that hold a byte of the buffer
InitOn(B, maxlen, Bgs, Windows) ==
  \E n \in 0..maxlen, a \in 0..(B - 1), bg \in Bgs, w \in Windows :
    \E p \in (0 - a)..(n + B - 1) :
      /\ memory = Content(1 - B, maxlen + B + 3, n, bg, p, w)
      /\ start = PAGE + a
      /\ length = n
      /\ Idle

\* a scanner is called once and returns
Call(name, r) ==
  /\ callee = "none"
  /\ callee' = name
  /\ result' = r.ret
  /\ loads' = r.loads
  /\ carry' = r.carry
  /\ UNCHANGED <<memory, start, length>>

Do_test_naive == Call("test_naive", test_naive(memory, start, length))

Do_test_twobyte == Call("test_twobyte", test_twobyte(memory, start, length))

Do_test_pure_sse2 ==
  Call("test_pure_sse2", test_pure_sse2(memory, start, length))

Do_test_sse2 == Call("test_sse2", test_sse2(memory, start, length))

Do_test_sse2_and_mycroft4 ==
  Call("test_sse2_and_mycroft4", test_sse2_and_mycroft4(memory, start, length))

Do_test_twosse2 == Call("test_twosse2", test_twosse2(memory, start, length))

Do_test_twobsse2 == Call("test_twobsse2", test_twobsse2(memory, start, length))

Do_test_pure_twobsse2 ==
  Call("test_pure_twobsse2", test_pure_twobsse2(memory, start, length))

Do_test_mycroft4 == Call("test_mycroft4", test_mycroft4(memory, start, length))

Do_test_pure_mycroft4 ==
  Call("test_pure_mycroft4", test_pure_mycroft4(memory, start, length))

Do_test_mycroft == Call("test_mycroft", test_mycroft(memory, start, length))

Do_test_pure_mycroft ==
  Call("test_pure_mycroft", test_pure_mycroft(memory, start, length))

Do_test_mycroft2 == Call("test_mycroft2", test_mycroft2(memory, start, length))

Do_test_pure_mycroft2 ==
  Call("test_pure_mycroft2", test_pure_mycroft2(memory, start, length))

Single == {"test_naive", "test_pure_sse2", "test_sse2",
           "test_sse2_and_mycroft4", "test_mycroft4", "test_pure_mycroft4",
           "test_mycroft", "test_pure_mycroft"}

Pair == {"test_twobyte", "test_twosse2", "test_twobsse2",
         "test_pure_twobsse2", "test_mycroft2", "test_pure_mycroft2"}

Pure == {"test_pure_sse2", "test_pure_twobsse2", "test_pure_mycroft4",
         "test_pure_mycroft", "test_pure_mycroft2"}

\* the scanner named c, on any memory
Scan(c, m, s, len) ==
  CASE c = "test_naive" -> test_naive(m, s, len)
    [] c = "test_twobyte" -> test_twobyte(m, s, len)
    [] c = "test_pure_sse2" -> test_pure_sse2(m, s, len)
    [] c = "test_sse2" -> test_sse2(m, s, len)
    [] c = "test_sse2_and_mycroft4" -> test_sse2_and_mycroft4(m, s, len)
    [] c = "test_twosse2" -> test_twosse2(m, s, len)
    [] c = "test_twobsse2" -> test_twobsse2(m, s, len)
    [] c = "test_pure_twobsse2" -> test_pure_twobsse2(m, s, len)
    [] c = "test_mycroft4" -> test_mycroft4(m, s, len)
    [] c = "test_pure_mycroft4" -> test_pure_mycroft4(m, s, len)
    [] c = "test_mycroft" -> test_mycroft(m, s, len)
    [] c = "test_pure_mycroft" -> test_pure_mycroft(m, s, len)
    [] c = "test_mycroft2" -> test_mycroft2(m, s, len)
    [] c = "test_pure_mycroft2" -> test_pure_mycroft2(m, s, len)

-----------------------------------------------------------------------------
(* The single byte scanners on 16 byte blocks *)

BgsVec == {<<"fill", "fill", "fill">>, <<"stars", "fill", "stars">>}

WindowsVec == {<<Star>>, <<Star, Star>>, <<Star, 43>>, <<43, Star>>, <<170>>}

InitVec == InitOn(16, MaxLenVec, BgsVec, WindowsVec)

NextVec ==
  \/ Do_test_naive
  \/ Do_test_pure_sse2
  \/ Do_test_sse2
  \/ Do_test_sse2_and_mycroft4

SpecVec == InitVec /\ [][NextVec]_vars
\* the smallest i in [0, len) with s[i] = '*', or -127
First1(m, len) ==
  IF \E i \in 0..(len - 1) : m[i] = Star
  THEN CHOOSE i \in 0..(len - 1) :
         m[i] = Star /\ \A j \in 0..(i - 1) : m[j] # Star
  ELSE NotFound

VecSingle == {"test_pure_sse2", "test_sse2", "test_sse2_and_mycroft4"}

\* C1: on every memory, alignment and length the vector scanners
\* test_pure_sse2, test_sse2 and test_sse2_and_mycroft4 return what test_naive
\* returns, which is the smallest i in [0, len) with s[i] = '*', or -127.
C1_VectorSingleAgree ==
  /\ callee \in VecSingle =>
       result = test_naive(memory, start, length).ret
  /\ callee \in VecSingle \cup {"test_naive"} =>
       result = First1(memory, length)

\* a '*' lies before the buffer in the first block, and the first '*' of the
\* buffer is found two blocks on
C1_Witness ==
  /\ callee = "test_pure_sse2"
  /\ start % 16 = 15
  /\ memory[0 - 1] = Star
  /\ length = 18
  /\ result = 17
  /\ Len(loads) = 3
-----------------------------------------------------------------------------
(* The single byte scanners on 4 and 8 byte words *)

BgsWord == {<<"fill", "fill", "fill">>, <<"stars", "fill", "stars">>}

\* '*', its neighbours '*' ^ 1 and '*' - 1, and '*' ^ 0x80
AlphabetWord == {Fill, Star, 43, 41, 170}

WindowsWord == {<<b, c>> : b \in AlphabetWord, c \in AlphabetWord}

\* every byte value, alone or right behind a '*', in or just before a buffer
InitWild ==
  \E a \in 0..7, b \in 0..255, c \in {Fill, Star} :
    \E p \in (0 - 1)..(WildLen - 2) :
      /\ memory = Content(0 - 7, WildLen + 8, WildLen,
                          <<"fill", "fill", "fill">>, p, <<c, b>>)
      /\ start = PAGE + a
      /\ length = WildLen
      /\ Idle

InitWord == InitOn(8, MaxLenWord, BgsWord, WindowsWord) \/ InitWild

NextWord ==
  \/ Do_test_naive
  \/ Do_test_mycroft4
  \/ Do_test_pure_mycroft4
  \/ Do_test_mycroft
  \/ Do_test_pure_mycroft

SpecWord == InitWord /\ [][NextWord]_vars

\* C2: on every memory, alignment and length the prologued word scanners
\* test_mycroft4 and test_mycroft return what test_naive returns, whatever
\* the bytes are ('*' + 1, '*' - 1 and '*' ^ 0x80 included).
C2_ProloguedWordAgree ==
  /\ callee \in {"test_mycroft4", "test_mycroft"} =>
       result = test_naive(memory, start, length).ret
  /\ callee \in {"test_mycroft4", "test_mycroft", "test_naive"} =>
       result = First1(memory, length)

\* a '*' found by a word load, with '*' ^ 1 right behind it in the word: the
\* borrow marks that lane too
C2_Witness ==
  /\ callee = "test_mycroft"
  /\ result > 0
  /\ (start + result) % 8 < 7
  /\ memory[result] = Star
  /\ memory[result + 1] = 43
  /\ \E k \in 1..Len(loads) : loads[k][2] = 8

\* C3: on every memory, alignment and length, whatever lies before the
\* buffer in its first word, the pure word scanners test_pure_mycroft4 and
\* test_pure_mycroft return what test_naive returns.
C3_PureWordAgree ==
  callee \in {"test_pure_mycroft4", "test_pure_mycroft"} =>
    result = test_naive(memory, start, length).ret
-----------------------------------------------------------------------------
(* The pair scanners on 8 byte words *)

\* '*', '#' and '*' ^ 1
AlphabetWord2 == {Fill, Star, Hash, 43}

WindowsWord2 ==
  {<<b, c, d>> : b \in AlphabetWord2, c \in AlphabetWord2, d \in AlphabetWord2}

InitWord2 ==
  InitOn(8, MaxLenWord, {<<"fill", "fill", "fill">>}, WindowsWord2)

NextWord2 ==
  \/ Do_test_twobyte
  \/ Do_test_mycroft2
  \/ Do_test_pure_mycroft2

SpecWord2 == InitWord2 /\ [][NextWord2]_vars

\* the smallest i with s[i] = '*', s[i + 1] = '#' and i + 1 < len, or -127
First2(m, len) ==
  IF \E i \in 0..(len - 2) : PairAt(m, i)
  THEN CHOOSE i \in 0..(len - 2) :
         PairAt(m, i) /\ \A j \in 0..(i - 1) : ~PairAt(m, j)
  ELSE NotFound

\* C4: on every memory, alignment and length the word pair scanners
\* test_mycroft2 and test_pure_mycroft2 return what test_twobyte returns, the
\* smallest i with s[i] = '*', s[i + 1] = '#' and i + 1 < len, or -127.
C4_WordPairAgree ==
  /\ callee \in {"test_mycroft2", "test_pure_mycroft2"} =>
       result = test_twobyte(memory, start, length).ret
  /\ callee \in {"test_mycroft2", "test_pure_mycroft2", "test_twobyte"} =>
       result = First2(memory, length)

-----------------------------------------------------------------------------
(* The pair scanners on 16 byte blocks *)

\* nothing but the window; '*' all around the buffer; "*#" all around it;
\* a buffer full of lone '*'
BgsVec2 == {<<"fill", "fill", "fill">>, <<"stars", "fill", "pairs">>,
            <<"fill", "stars", "fill">>}

WindowsVec2 == {<<Star, Hash>>, <<Hash, Star>>, <<Star, Fill, Hash>>,
                <<Star, Star, Hash>>, <<Hash>>}

InitVec2 == InitOn(16, MaxLenVec, BgsVec2, WindowsVec2)

NextVec2 ==
  \/ Do_test_twobyte
  \/ Do_test_twosse2
  \/ Do_test_twobsse2
  \/ Do_test_pure_twobsse2

SpecVec2 == InitVec2 /\ [][NextVec2]_vars

VecPair == {"test_twosse2", "test_twobsse2", "test_pure_twobsse2"}

\* C5: on every memory, alignment and length the vector pair scanners
\* test_twosse2, test_twobsse2 and test_pure_twobsse2 return what
\* test_twobyte returns, also when lone '*' bytes precede the first pair.
C5_VectorPairAgree ==
  /\ callee \in VecPair =>
       result = test_twobyte(memory, start, length).ret
  /\ callee \in VecPair \cup {"test_twobyte"} =>
       result = First2(memory, length)

\* the pair straddles the second block boundary of test_twosse2, its '*' the
\* last lane of one block, after lone '*' bytes that start no pair
C5_Witness ==
  /\ callee = "test_twosse2"
  /\ result > 1
  /\ (start + result) % 16 = 15
  /\ Len(carry) = 2
  /\ \A j \in 0..(result - 1) : memory[j] = Star
-----------------------------------------------------------------------------
(* Every scanner, on buffers whose edges are where the window is *)

BgsAll == {<<"fill", "fill", "fill">>, <<"stars", "fill", "pairs">>}

WindowsAll == {<<Star, Hash>>, <<43, Hash>>, <<Star>>}

\* a buffer at any alignment, with a window at its start or at its end
Init ==
  \E n \in 0..MaxLen, a \in 0..15, bg \in BgsAll, w \in WindowsAll :
    \E p \in ((0 - 2)..1) \cup ((n - 2)..(n + 1)) :
      /\ memory = Content(0 - 15, MaxLen + 19, n, bg, p, w)
      /\ start = PAGE + a
      /\ length = n
      /\ Idle

Next ==
  \/ Do_test_naive
  \/ Do_test_twobyte
  \/ Do_test_pure_sse2
  \/ Do_test_sse2
  \/ Do_test_sse2_and_mycroft4
  \/ Do_test_twosse2
  \/ Do_test_twobsse2
  \/ Do_test_pure_twobsse2
  \/ Do_test_mycroft4
  \/ Do_test_pure_mycroft4
  \/ Do_test_mycroft
  \/ Do_test_pure_mycroft
  \/ Do_test_mycroft2
  \/ Do_test_pure_mycroft2

Spec == Init /\ [][Next]_vars

\* C6: every scanner returns -127 or an index r with 0 <= r < len, and
\* r + 1 < len for a pair scanner; a pair scanner returns -127 when len < 2.
C6_ResultInRange ==
  /\ callee \in Single =>
       result = NotFound \/ (0 <= result /\ result < length)
  /\ callee \in Pair =>
       result = NotFound \/ (0 <= result /\ result + 1 < length)
  /\ callee \in Pair /\ length < 2 => result = NotFound

\* a block load saw a '*' behind the buffer end and nothing before it
C6_Witness ==
  /\ callee = "test_pure_sse2"
  /\ length > 0
  /\ memory[length] = Star
  /\ (start + length) % 16 # 0
  /\ result = NotFound

\* the memory with other bytes from index len on
WithTail(m, len, pat) ==
  [k \in DOMAIN m |-> IF k >= len THEN Pattern(pat, k - len) ELSE m[k]]

\* the memory with other bytes before index 0
WithPrefix(m, pat) ==
  [k \in DOMAIN m |-> IF k < 0 THEN Pattern(pat, (0 - 1) - k) ELSE m[k]]

Patterns == {"fill", "stars", "hashes", "pairs"}

\* C7: what a scanner returns does not depend on the bytes at indices >= len:
\* on a memory that differs only there it returns the same; a buffer of 'a'
\* bytes gives -127 whatever follows it ('*', "*#").
C7_TailIndependent ==
  callee # "none" =>
    /\ \A pat \in Patterns :
         Scan(callee, WithTail(memory, length, pat), start, length).ret = result
    /\ (\A k \in 0..(length - 1) : memory[k] = Fill) => result = NotFound

\* "*#" with its '#' the first byte behind the buffer, inside a loaded word
C7_Witness ==
  /\ callee = "test_mycroft2"
  /\ length > 1
  /\ memory[length - 1] = Star
  /\ memory[length] = Hash
  /\ \E k \in 1..Len(loads) :
       loads[k][2] = 8 /\ loads[k][1] < length /\ length < loads[k][1] + 8
  /\ result = NotFound

\* C8: what a pure scanner returns does not depend on the bytes before the
\* buffer start: on a memory that differs only there it returns the same.
C8_PrefixIndependent ==
  callee \in Pure =>
    \A pat \in Patterns :
      Scan(callee, WithPrefix(memory, pat), start, length).ret = result

\* the aligned block of n bytes around index j holds a byte of the buffer
LiveBlock(j, n) ==
  LET base == j - ((start + j) % n)
  IN  base < length /\ base + n > 0 /\ length > 0

\* C9: every byte a scanner reads lies in an aligned block, of the size of
\* the load (of 8 bytes for test_mycroft2), that holds a byte of the buffer.
C9_LoadsInLiveBlocks ==
  \A k \in 1..Len(loads) :
    \A j \in loads[k][1]..(loads[k][1] + loads[k][2] - 1) :
      LiveBlock(j, loads[k][2])

-----------------------------------------------------------------------------
(* Every scanner, on the one accessible page between two guard pages *)

\* the buffer of test(): 'a' bytes, the target (if any) at pos, and for a
\* pair one more '*' at k before it (k < 0: none)
PageContent(len, bg, pos, w, k) ==
  LET m == Content(0 - 16, TestLens + 16, len, bg, pos, w)
  IN  IF k >= 0 THEN [m EXCEPT ![k] = Star] ELSE m

\* for (len = 0; len < 40; len++) with the buffer at the start of the page:
\* '*' or "*#" bytes behind it, and no target or one at each position
InitPageStart ==
  \E n \in 0..(TestLens - 1), w \in {<<Star>>, <<Star, Hash>>} :
    \E pos \in (0 - 1)..(n - Len(w)) :
      \E k \in (0 - 1)..(IF Len(w) = 2 THEN pos - 1 ELSE 0 - 1) :
        /\ memory = PageContent(n, <<"zero", "fill",
                                     IF Len(w) = 2 THEN "pairs" ELSE "stars">>,
                                 IF pos < 0 THEN 0 ELSE pos,
                                 IF pos < 0 THEN <<>> ELSE w, k)
        /\ start = PAGE
        /\ length = n
        /\ Idle

\* for (len = 0; len < 40; len++) with the buffer at the end of the page:
\* '*' bytes before it, and no target or one at each position
InitPageEnd ==
  \E n \in 0..(TestLens - 1), w \in {<<Star>>, <<Star, Hash>>} :
    \E pos \in (0 - 1)..(n - Len(w)) :
      /\ memory = PageContent(n, <<"stars", "fill", "zero">>,
                               IF pos < 0 THEN 0 ELSE pos,
                               IF pos < 0 THEN <<>> ELSE w, 0 - 1)
      /\ start = 2 * PAGE - n
      /\ length = n
      /\ Idle

InitPage == InitPageStart \/ InitPageEnd

NextPage ==
  \/ Do_test_naive
  \/ Do_test_twobyte
  \/ Do_test_pure_sse2
  \/ Do_test_sse2
  \/ Do_test_sse2_and_mycroft4
  \/ Do_test_twosse2
  \/ Do_test_twobsse2
  \/ Do_test_pure_twobsse2
  \/ Do_test_mycroft4
  \/ Do_test_pure_mycroft4
  \/ Do_test_mycroft
  \/ Do_test_pure_mycroft
  \/ Do_test_mycroft2
  \/ Do_test_pure_mycroft2

SpecPage == InitPage /\ [][NextPage]_vars

\* the address is in the page that mprotect left accessible
Accessible(addr) == PAGE <= addr /\ addr < 2 * PAGE

\* C10: with the buffer at the first byte of the accessible page or ending at
\* its last byte, for len 0..39 and a target at every position, no scanner
\* reads an address of a guard page.
C10_NoGuardPageRead ==
  \A k \in 1..Len(loads) :
    /\ Accessible(start + loads[k][1])
    /\ Accessible(start + loads[k][1] + loads[k][2] - 1)

\* a block load whose last byte is the last byte of the page, the buffer
\* ending inside that block, and one whose first byte is the first of the page
C10_Witness ==
  /\ callee = "test_pure_sse2"
  /\ length > 16
  /\ length % 16 # 0
  /\ start + length = 2 * PAGE
  /\ result = NotFound
  /\ loads[1][1] < 0
  /\ start + loads[Len(loads)][1] + 16 = 2 * PAGE

-----------------------------------------------------------------------------
(* Every scanner, on the small string of set_up() *)

\* "Now is the time *# for all good men"
Small ==
  <<78, 111, 119, 32, 105, 115, 32, 116, 104, 101, 32, 116, 105, 109, 101, 32,
    42, 35, 32, 102, 111, 114, 32, 97, 108, 108, 32, 103, 111, 111, 100, 32,
    109, 101, 110>>

\* the memory seen from s = small + off: the string, its terminating NUL,
\* and around them whatever the linker put there
SmallContent(off, before, behind) ==
  [k \in (0 - 16)..(Len(Small) + 16) |->
     IF k + off < 0 THEN Pattern(before, (0 - 1) - (k + off))
     ELSE IF k + off < Len(Small) THEN Small[k + off + 1]
     ELSE IF k + off = Len(Small) THEN 0
     ELSE Pattern(behind, k + off - Len(Small) - 1)]

\* fn(small + off, small_length - off) of time(), the string at any
\* alignment, and the scans of a shorter part of it
InitSmall ==
  \E a \in 0..15, off \in 0..15, before \in {"zero", "stars"} :
    \E n \in 0..(Len(Small) - off) :
      /\ memory = SmallContent(off, before, "pairs")
      /\ start = PAGE + a + off
      /\ length = n
      /\ Idle

NextSmall ==
  \/ Do_test_naive
  \/ Do_test_twobyte
  \/ Do_test_pure_sse2
  \/ Do_test_sse2
  \/ Do_test_sse2_and_mycroft4
  \/ Do_test_twosse2
  \/ Do_test_twobsse2
  \/ Do_test_pure_twobsse2
  \/ Do_test_mycroft4
  \/ Do_test_pure_mycroft4
  \/ Do_test_mycroft
  \/ Do_test_pure_mycroft
  \/ Do_test_mycroft2
  \/ Do_test_pure_mycroft2

SpecSmall == InitSmall /\ [][NextSmall]_vars

\* s is the first byte of the small string
AtSmall == \A k \in 1..Len(Small) : memory[k - 1] = Small[k]

\* C11, as stated: the small string has 37 bytes, every scanner returns 17 on
\* it, and a single byte scan of its first 17 bytes returns -127.
C11_SmallAsStated ==
  callee # "none" /\ AtSmall =>
    /\ Len(Small) = 37
    /\ length = Len(Small) => result = 17
    /\ length = 17 /\ callee \in Single => result = NotFound

\* C11, amended: the small string has 35 bytes, every single byte scanner and
\* every pair scanner returns 16 on it, and a single byte scan of its first
\* 16 bytes ("Now is the time ") returns -127.
C11_SmallString ==
  callee # "none" /\ AtSmall =>
    /\ Len(Small) = 35
    /\ length = Len(Small) => result = 16
    /\ length = 16 /\ callee \in Single => result = NotFound

\* a pair scanner found "*#" in the whole string, read from its first byte
C11_Witness ==
  /\ callee = "test_pure_mycroft2"
  /\ AtSmall
  /\ length = Len(Small)
  /\ start % 8 = 3
  /\ result = 16

-----------------------------------------------------------------------------
(* The detector of Mycroft's trick on one word *)

\* one iteration of the word loop on the word at s, with highs unmasked:
\* raw = *(T*)s ^ mask; raw = (raw - ones) & (~raw) & highs;
\* if (raw) answer = (__builtin_ffs(raw) >> 3) - 1
detect_step(m, n, c) ==
  LET raw == Detect(Load(m, 0, n), Rep(c, n), Rep(128, n))
  IN  Res(IF WordIsZero(raw) THEN NotFound ELSE Shr(WordFfs(raw), 3) - 1,
          <<<<0, n>>>>, <<<<0, raw>>>>)

Do_detect_star == Call("detect_star", detect_step(memory, length, Star))

Do_detect_hash == Call("detect_hash", detect_step(memory, length, Hash))

\* the targets, target ^ 1, and two bytes far from both
Alphabet32 == {Star, 43, Hash, 34, Fill, 0, 170, 255}

Alphabet64 == {Star, 43, Hash, Fill}

\* the word w at an aligned s
WordAt(w) ==
  /\ memory = [k \in 0..(Len(w) - 1) |-> w[k + 1]]
  /\ start = PAGE
  /\ length = Len(w)
  /\ Idle

\* a word of n lanes with the bytes c, b at lanes k, k + 1 and 'a' elsewhere
TwoLanes(n, k, c, b) ==
  [j \in 1..n |-> IF j = k THEN c ELSE IF j = k + 1 THEN b ELSE Fill]

InitDetect32 ==
  \E b1 \in Alphabet32, b2 \in Alphabet32, b3 \in Alphabet32,
     b4 \in Alphabet32 : WordAt(<<b1, b2, b3, b4>>)

InitDetect64 ==
  \E b1 \in Alphabet64, b2 \in Alphabet64, b3 \in Alphabet64,
     b4 \in Alphabet64, b5 \in Alphabet64, b6 \in Alphabet64,
     b7 \in Alphabet64, b8 \in Alphabet64 :
    WordAt(<<b1, b2, b3, b4, b5, b6, b7, b8>>)

\* every byte value in every lane, behind 'a', '*' or '#'
InitDetectWild ==
  \E n \in {4, 8}, b \in 0..255, c \in {Fill, Star, Hash} :
    \E k \in 0..(n - 1) : WordAt(TwoLanes(n, k, c, b))

InitDetect == InitDetect32 \/ InitDetect64 \/ InitDetectWild

NextDetect == Do_detect_star \/ Do_detect_hash

SpecDetect == InitDetect /\ [][NextDetect]_vars

\* the byte the step looked for
Target == IF callee = "detect_star" THEN Star ELSE Hash

\* the detector value of the step
Raw == carry[1][2]

\* C12: the detector has the top bit of a lane set if and only if that lane
\* of the word equals the target byte.
C12_DetectorExact ==
  callee \in {"detect_star", "detect_hash"} =>
    \A k \in 0..(length - 1) : Raw[k + 1] >= 128 <=> memory[k] = Target

\* the lowest lane of the word that holds the target byte
FirstLane ==
  CHOOSE k \in 0..(length - 1) :
    memory[k] = Target /\ \A j \in 0..(k - 1) : memory[j] # Target

\* C13: the unmasked detector value is nonzero if and only if some lane of
\* the word equals the target byte, and then (ffs(d) >> 3) - 1 is the index
\* of the lowest lane that equals it.
C13_LowestLane ==
  callee \in {"detect_star", "detect_hash"} =>
    /\ ~WordIsZero(Raw) <=> \E k \in 0..(length - 1) : memory[k] = Target
    /\ ~WordIsZero(Raw) => result = FirstLane

\* the lane above the lowest match is flagged too, by the borrow, and the
\* answer is still the lowest match
C13_Witness ==
  /\ callee = "detect_star"
  /\ length = 8
  /\ memory[2] = Star
  /\ memory[3] = 43
  /\ Raw[4] >= 128
  /\ result = 2

-----------------------------------------------------------------------------
(* Pairs that straddle two blocks, and what the loops carry over *)

BlockPair == {"test_twosse2", "test_twobsse2", "test_pure_twobsse2",
              "test_mycroft2", "test_pure_mycroft2"}

\* the bytes between two aligned loads of the scanner c
BlockOf(c) == IF c \in {"test_mycroft2", "test_pure_mycroft2"} THEN 8 ELSE 16

\* the pending bit in the value v that the loop of c carries into an
\* iteration: prev & 0x8000, bit 0 of stars, bit 7 of stars_low
PendingBit(c, v) ==
  CASE c = "test_twosse2" -> BitAnd(v, 32768) # 0
    [] c \in {"test_twobsse2", "test_pure_twobsse2"} -> v % 2 = 1
    [] c = "test_pure_mycroft2" -> v[1] >= 128
    [] OTHER -> FALSE

\* "*#" at j, j + 1 with the '*' in the last lane of a block of n bytes
Straddles(j, n) ==
  /\ (start + j) % n = n - 1
  /\ PairAt(memory, j)

\* C14: a block pair scanner returns the index of a '*' in the last lane of
\* a block whose '#' is the first lane of the next block, when the '#' is
\* below len and no pair starts before; and the bit carried into the
\* iteration at index i says whether byte i - 1 is a '*' of the buffer.
C14_StraddleAndCarry ==
  callee \in BlockPair =>
    /\ \A j \in 0..(length - 2) :
         Straddles(j, BlockOf(callee)) /\ First2(memory, length) = j =>
           result = j
    /\ \A k \in 1..Len(carry) :
         PendingBit(callee, carry[k][2]) <=>
           /\ 0 <= carry[k][1] - 1
           /\ carry[k][1] - 1 < length
           /\ memory[carry[k][1] - 1] = Star

-----------------------------------------------------------------------------
(* Rolling accumulate against shift and combine *)

\* C15: test_twobsse2 returns what test_twosse2 returns, and the stars that
\* test_twobsse2 and test_pure_twobsse2 carry into an iteration hold at most
\* bit 0, so stars += mask << 1 never carries from one bit into another.
C15_AccumulateIsCombine ==
  /\ callee = "test_twobsse2" =>
       result = test_twosse2(memory, start, length).ret
  /\ callee = "test_twosse2" =>
       result = test_twobsse2(memory, start, length).ret
  /\ callee \in {"test_twobsse2", "test_pure_twobsse2"} =>
       \A k \in 1..Len(carry) : carry[k][2] \in {0, 1}

\* a lone '*' in the last lane of a block went into the next iteration as
\* bit 0, was added to the stars of that block, and met no '#'
C15_Witness ==
  /\ callee = "test_twobsse2"
  /\ Len(carry) = 2
  /\ carry[2][2] = 1
  /\ memory[carry[2][1]] = Star
  /\ result = NotFound

-----------------------------------------------------------------------------
(* The alignment of the loads *)

\* the load <<index, size>> is at an address that is a multiple of its size
Aligned(ld) == (start + ld[1]) % ld[2] = 0

\* C16, as stated: every multi-byte load of every scanner is at an address
\* that is a multiple of its size.
C16_AllLoadsAligned == \A k \in 1..Len(loads) : Aligned(loads[k])

\* C16, amended: every multi-byte load of every scanner but test_mycroft2 is
\* at an address that is a multiple of its size; test_mycroft2 loads 8 bytes
\* at s + i - 1 and then at s + i, where s + i is a multiple of 8.
C16_LoadsAligned ==
  /\ callee # "test_mycroft2" => \A k \in 1..Len(loads) : Aligned(loads[k])
  /\ callee = "test_mycroft2" =>
       \A k \in 1..Len(loads) :
         loads[k][2] > 1 /\ ~Aligned(loads[k]) =>
           /\ loads[k][2] = 8
           /\ k < Len(loads)
           /\ loads[k + 1] = <<loads[k][1] + 1, 8>>
           /\ Aligned(loads[k + 1])

\* test_mycroft2 loaded 8 bytes from the last byte of an 8 byte block on
C16_Witness ==
  /\ callee = "test_mycroft2"
  /\ \E k \in 1..Len(loads) :
       loads[k][2] = 8 /\ (start + loads[k][1]) % 8 = 7
  /\ \E k \in 1..Len(loads) : loads[k][2] = 8 /\ Aligned(loads[k])

-----------------------------------------------------------------------------
(* The order of the reads of the prologued scanners *)

Prologued == {"test_sse2", "test_sse2_and_mycroft4", "test_mycroft4",
              "test_mycroft", "test_twosse2", "test_twobsse2", "test_mycroft2"}

\* the k-th load is a block load made at the index i or (test_mycroft2) right
\* before it, where s + i is aligned to the load and i is in [1, len), and
\* the byte at index 0 was read bytewise before it
AfterPrologue(k) ==
  /\ loads[1] = <<0, 1>>
  /\ \E i \in 1..(length - 1) :
       /\ (start + i) % loads[k][2] = 0
       /\ loads[k][1] = i \/ (callee = "test_mycroft2" /\ loads[k][1] = i - 1)

\* no byte before the buffer is read, and every block load comes after the
\* prologue
PrologueOrder ==
  /\ \A k \in 1..Len(loads) : loads[k][1] >= 0
  /\ \A k \in 1..Len(loads) : loads[k][2] > 1 => AfterPrologue(k)

\* C17, as stated: a prologued scanner with len >= 1 reads the byte at index
\* 0 bytewise first, makes its block loads only after the prologue reached
\* an aligned index in [1, len), reads no byte before the buffer, and reads
\* nothing when len = 0.
C17_PrologueAsStated ==
  callee \in Prologued =>
    /\ length >= 1 => Len(loads) >= 1 /\ loads[1] = <<0, 1>>
    /\ PrologueOrder
    /\ length = 0 => loads = <<>>

\* C17, amended: the same, where the pair scanners among them read the byte
\* at index 0 first when len >= 2 and read nothing when len <= 1.
C17_PrologueFirst ==
  callee \in Prologued =>
    /\ length >= (IF callee \in Pair THEN 2 ELSE 1) =>
         Len(loads) >= 1 /\ loads[1] = <<0, 1>>
    /\ PrologueOrder
    /\ length < (IF callee \in Pair THEN 2 ELSE 1) => loads = <<>>

\* one bytewise comparison at index 0, then block loads from index 1 on
C17_Witness ==
  /\ callee = "test_sse2"
  /\ start % 16 = 15
  /\ length > 1
  /\ Len(loads) = 2
  /\ loads[1] = <<0, 1>>
  /\ loads[2] = <<1, 16>>

=============================================================================
